---------------------------- MODULE Spec2Model ----------------------------
(***************************************************************************)
(* GitHub CDN: the request router of functions/_middleware.js (Cloudflare  *)
(* Pages, onRequest) and of src/index.js (Cloudflare Worker, fetch).       *)
(*                                                                         *)
(* A JavaScript string is a sequence of tokens.  The token "/" is the      *)
(* slash character; every other token is an atom: a non-empty run of       *)
(* characters holding no slash ("gh", "https:", "raw.githubusercontent.com")*)
(* A pathname is rendered from its segments, so two atoms are never        *)
(* adjacent and every string operation of the code (startsWith, includes,  *)
(* indexOf, slice, split, join, the regular expressions, the template      *)
(* literals) acts on tokens exactly as it acts on the characters.          *)
(***************************************************************************)
EXTENDS Naturals, Integers, Sequences, FiniteSets, TLC

VARIABLES
    entry,      \* "pages" (onRequest) or "worker" (fetch): who handles the request
    segs,       \* the segments the inbound pathname was rendered from
    path,       \* url.pathname, a string
    pc,         \* "idle", "awaiting" (suspended at await fetch), "done"
    variant,    \* the branch of the handler that was taken
    githubUrl,  \* the upstream address the branch built
    outbound,   \* the outbound requests issued for this inbound request
    upstream,   \* what the outbound fetch produced
    response    \* the response handed back to the caller

vars == <<entry, segs, path, pc, variant, githubUrl, outbound, upstream, response>>

-----------------------------------------------------------------------------
(* Bounds and input alphabets *)

\* Free segments that may follow the first segment of an inbound path.
MaxCoords == 4

RawHost == "raw.githubusercontent.com"
MainHost == "github.com"
OtherHost == "evil.example"

\* First segment of a path: the three keywords and a plain name.
FirstSegs == {"gh", "raw", "releases", "x"}
\* Segments after the first: a plain name, the two words the code looks for
\* past the first segment, a URL scheme, and the empty segment (a doubled or
\* trailing slash).
CoordSegs == {"a", "blob", "download", "https:", ""}

EmbRaw == <<"https:", "", RawHost>>
EmbOther == <<"https:", "", OtherHost>>
EmbHttp == <<"http:", "", RawHost>>
\* How a path may end: nothing more, a file name, a host and a file name, or
\* an embedded URL.
Tails ==
    { <<>>, <<"f">>, <<RawHost, "f">>, EmbRaw \o <<"f">>, EmbOther \o <<"f">>,
      EmbHttp \o <<"f">>, EmbOther \o EmbRaw \o <<"f">> }

SeqsUpTo(S, n) == UNION { [1..k -> S] : k \in 0..n }

\* The inbound paths, as segment lists: the root "/" (one empty segment), the
\* empty path, and a first segment, up to MaxCoords segments and a tail.
SegLists ==
    { <<"">> } \cup { t : t \in Tails } \cup
    { <<k>> \o c \o t : k \in FirstSegs, c \in SeqsUpTo(CoordSegs, MaxCoords), t \in Tails }

\* A segment as a string: the empty segment is the empty string.
Str(seg) == IF seg = "" THEN <<>> ELSE <<seg>>

RECURSIVE Render(_)
\* The pathname with the given segments: a slash before each.
Render(s) == IF s = <<>> THEN <<>> ELSE <<"/">> \o Str(Head(s)) \o Render(Tail(s))

-----------------------------------------------------------------------------
(* JavaScript string and array primitives, on token strings *)

null == "<null>"

StartsWith(s, p) == Len(s) >= Len(p) /\ SubSeq(s, 1, Len(p)) = p

MatchAt(s, n, i) == i + Len(n) - 1 <= Len(s) /\ SubSeq(s, i, i + Len(n) - 1) = n

\* String.prototype.includes
Includes(s, n) == \E i \in 1..(Len(s) + 1) : MatchAt(s, n, i)

\* String.prototype.indexOf: 0-based index of the first occurrence, -1 if none
IndexOf(s, n) ==
    IF Includes(s, n)
    THEN (CHOOSE i \in 1..(Len(s) + 1) :
              MatchAt(s, n, i) /\ \A j \in 1..(i - 1) : ~MatchAt(s, n, j)) - 1
    ELSE -1

\* String.prototype.substring(from) and slice(from), from >= 0
Substring(s, from) == SubSeq(s, from + 1, Len(s))

RECURSIVE Split(_)
\* String.prototype.split('/'): the pieces between slashes, empty ones kept
Split(s) ==
    IF \A i \in 1..Len(s) : s[i] # "/"
    THEN <<s>>
    ELSE LET i == CHOOSE k \in 1..Len(s) : s[k] = "/" /\ \A j \in 1..(k - 1) : s[j] # "/"
         IN  <<SubSeq(s, 1, i - 1)>> \o Split(SubSeq(s, i + 1, Len(s)))

RECURSIVE Join(_)
\* Array.prototype.join('/')
Join(parts) ==
    IF parts = <<>> THEN <<>>
    ELSE IF Len(parts) = 1 THEN parts[1]
    ELSE parts[1] \o <<"/">> \o Join(Tail(parts))

\* Array.prototype.slice(from)
ArraySlice(parts, from) == SubSeq(parts, from + 1, Len(parts))

\* The longest run of non-slash tokens of s starting at i: what [^\/]+ takes
\* when a literal slash must follow.
RunEnd(s, i) ==
    CHOOSE j \in (i - 1)..Len(s) :
        /\ \A k \in i..j : s[k] # "/"
        /\ (j = Len(s) \/ s[j + 1] = "/")


-----------------------------------------------------------------------------
(* Responses *)

NoHeaders == [h \in {} |-> ""]

\* Headers.get: the value, or null when the header is absent
HeadersGet(headers, name) == IF name \in DOMAIN headers THEN headers[name] ELSE null

\* a || b on strings: null and the empty string are falsy
OrElse(a, b) == IF a = null \/ a = "" THEN b ELSE a

\* new Response(text, { status }): a string body gets the runtime's default
\* Content-Type and no other header
TextResponse(text, status) ==
    [status |-> status, body |-> text,
     headers |-> ("Content-Type" :> "text/plain;charset=UTF-8")]

\* new Response(body, { headers }): the status defaults to 200
BodyResponse(body, headers) == [status |-> 200, body |-> body, headers |-> headers]

NoResponse == [status |-> 0, body |-> <<>>, headers |-> NoHeaders]

\* What context.next() resolves to: the static asset of the Pages project.
NextResponse == [status |-> 200, body |-> <<"<static asset>">>, headers |-> NoHeaders]

\* Outcomes of the outbound fetch.
NoUpstream == [status |-> 0, statusText |-> "", headers |-> NoHeaders, body |-> <<>>]

UpstreamResponses ==
    { [status |-> 200, statusText |-> "OK", headers |-> NoHeaders,
       body |-> <<"<upstream bytes>">>],
      [status |-> 200, statusText |-> "OK",
       headers |-> ("content-type" :> "text/markdown"), body |-> <<"<upstream bytes>">>],
      [status |-> 206, statusText |-> "Partial Content",
       headers |-> ("content-type" :> ""), body |-> <<"<upstream bytes>">>],
      [status |-> 404, statusText |-> "Not Found",
       headers |-> ("content-type" :> "text/html"), body |-> <<"<upstream error page>">>],
      [status |-> 503, statusText |-> "Service Unavailable", headers |-> NoHeaders,
       body |-> <<>>] }

\* error.message of a rejected fetch
ErrorMessages == {"network connection lost"}

\* response.ok
Ok(up) == up.status >= 200 /\ up.status <= 299

\* The outbound request: fetch(githubUrl, { headers })
Request(url) ==
    [url |-> url,
     headers |-> ("Authorization" :> "token GITHUB_TOKEN") @@
                 ("User-Agent" :> "GitHub-CDN-Worker")]

\* Mutant: every upstream error is reported as 502 Bad Gateway
UpstreamErrorResponse_BadGateway(up) ==
    TextResponse(<<"GitHub API error: ", ToString(up.status), " ", up.statusText>>, 502)

\* if (!response.ok) return new Response(`GitHub API error: ...`, { status })
UpstreamErrorResponse(up) ==
    TextResponse(<<"GitHub API error: ", ToString(up.status), " ", up.statusText>>, up.status)

\* Mutant: the cross-origin allowance is left out of the relayed response
RelayResponse_NoCors(up, defaultType, cacheControl) ==
    LET contentType == OrElse(HeadersGet(up.headers, "content-type"), defaultType)
    IN  BodyResponse(up.body,
            ("Content-Type" :> contentType) @@ ("Cache-Control" :> cacheControl))

\* The success path of a branch: content type, cache headers, the body relayed
RelayResponse(up, defaultType, cacheControl) ==
    LET contentType == OrElse(HeadersGet(up.headers, "content-type"), defaultType)
    IN  BodyResponse(up.body,
            ("Content-Type" :> contentType) @@
            ("Cache-Control" :> cacheControl) @@
            ("Access-Control-Allow-Origin" :> "*"))

\* The code after `await fetch` of a branch, inside its try block
Settle(up, defaultType, cacheControl) ==
    IF ~Ok(up) THEN UpstreamErrorResponse(up)
    ELSE RelayResponse(up, defaultType, cacheControl)

FetchVariants == {"embedded", "direct", "release", "raw", "gh"}

-----------------------------------------------------------------------------
(* Upstream addresses *)

\* `https://raw.githubusercontent.com/${username}/${repo}/${branch}/${filePath}`
RawContentUrl(username, repo, branch, filePath) ==
    <<"https:", "/", "/", RawHost, "/">> \o username \o <<"/">> \o repo \o <<"/">>
        \o branch \o <<"/">> \o filePath

\* Mutant: release assets asked of the raw-content host
ReleaseDownloadUrl_RawHost(username, repo, releasePathAndFile) ==
    <<"https:", "/", "/", RawHost, "/">> \o username \o <<"/">> \o repo
        \o <<"/", "releases", "/", "download", "/">> \o releasePathAndFile

\* `https://github.com/${username}/${repo}/releases/download/${releasePathAndFile}`
ReleaseDownloadUrl(username, repo, releasePathAndFile) ==
    <<"https:", "/", "/", MainHost, "/">> \o username \o <<"/">> \o repo
        \o <<"/", "releases", "/", "download", "/">> \o releasePathAndFile

NoMatch == <<>>

\* path.match(/^\/releases\/([^\/]+)\/([^\/]+)\/download\/(.+)/): the array
\* [whole, username, repo, rest], or no match
ReleaseMatch(s) ==
    IF ~StartsWith(s, <<"/", "releases", "/">>) THEN NoMatch
    ELSE LET uEnd == RunEnd(s, 4) IN
         IF uEnd < 4 \/ uEnd + 1 > Len(s) THEN NoMatch
         ELSE LET rEnd == RunEnd(s, uEnd + 2) IN
              IF rEnd < uEnd + 2 THEN NoMatch
              ELSE IF ~MatchAt(s, <<"/", "download", "/">>, rEnd + 1) THEN NoMatch
              ELSE IF rEnd + 4 > Len(s) THEN NoMatch
              ELSE <<s, SubSeq(s, 4, uEnd), SubSeq(s, uEnd + 2, rEnd),
                     SubSeq(s, rEnd + 4, Len(s))>>

\* path.match(/^\/releases\/([^\/]+)\/([^\/]+)\/download\/.+/) as a condition
ReleaseTest(s) == ReleaseMatch(s) # NoMatch

\* The release branch's address
ReleaseUrl(s) ==
    LET matches == ReleaseMatch(s)
    IN  ReleaseDownloadUrl(matches[2], matches[3], matches[4])

\* The /raw/ branch: parts = path.slice(5).split('/'); 5 is the length of "/raw/"
RawParts(s) == Split(Substring(s, Len(<<"/", "raw", "/">>)))

\* Mutant: the file path taken from one segment too far (parts.slice(4))
RawUrl_SliceOffByOne(s) ==
    LET parts == Split(Substring(s, Len(<<"/", "raw", "/">>)))
    IN  RawContentUrl(parts[1], parts[2], parts[3], Join(ArraySlice(parts, 4)))

RawUrl(s) ==
    LET parts == RawParts(s)
    IN  RawContentUrl(parts[1], parts[2], parts[3], Join(ArraySlice(parts, 3)))

\* The /gh/ branch: parts = path.slice(4).split('/'); 4 is the length of "/gh/"
GhParts(s) == Split(Substring(s, Len(<<"/", "gh", "/">>)))

\* Mutant: only the first segment of the file path is kept (no join)
GhUrl_FirstSegmentOnly(s) ==
    LET parts == Split(Substring(s, Len(<<"/", "gh", "/">>)))
        isBlob == parts[3] = <<"blob">> /\ Len(parts) > 3
        branch == IF isBlob THEN parts[4] ELSE parts[3]
        rest == IF isBlob THEN ArraySlice(parts, 4) ELSE ArraySlice(parts, 3)
        filePath == IF rest = <<>> THEN <<>> ELSE rest[1]
    IN  RawContentUrl(parts[1], parts[2], branch, filePath)

\* Mutant: the blob marker is not recognised
GhUrl_KeepsBlob(s) ==
    LET parts == Split(Substring(s, Len(<<"/", "gh", "/">>)))
    IN  RawContentUrl(parts[1], parts[2], parts[3], Join(ArraySlice(parts, 3)))

GhUrl(s) ==
    LET parts == GhParts(s)
        isBlob == parts[3] = <<"blob">> /\ Len(parts) > 3
        branch == IF isBlob THEN parts[4] ELSE parts[3]
        filePath == IF isBlob THEN Join(ArraySlice(parts, 4)) ELSE Join(ArraySlice(parts, 3))
    IN  RawContentUrl(parts[1], parts[2], branch, filePath)

\* Pages: path.match(/^\/https?:\/\/raw\.githubusercontent\.com\//)
DirectTest(s) ==
    \/ StartsWith(s, <<"/", "https:", "/", "/", RawHost, "/">>)
    \/ StartsWith(s, <<"/", "http:", "/", "/", RawHost, "/">>)

\* Atoms that begin with the characters "http"
HttpAtoms == {"https:", "http:"}

\* Pages: the direct branch's address
DirectUrl(s) ==
    IF StartsWith(s, <<"/", "/">>) THEN <<"https:">> \o s
    ELSE IF Len(s) >= 2 /\ s[1] = "/" /\ s[2] \in HttpAtoms THEN Substring(s, 1)
    ELSE <<"https:", "/", "/", RawHost>> \o s

\* Worker: path.includes('/https://raw.githubusercontent.com/')
EmbeddedTest(s) == Includes(s, <<"/", "https:", "/", "/", RawHost, "/">>)

\* Worker: path.substring(path.indexOf('/https://') + 1)
EmbeddedUrl(s) == Substring(s, IndexOf(s, <<"/", "https:", "/", "/">>) + 1)

-----------------------------------------------------------------------------
(* functions/_middleware.js: onRequest *)

\* The branch onRequest takes for a pathname, in the order of its if statements
onRequest_branch(s) ==
    IF s = <<"/">> \/ s = <<>> THEN "static"
    ELSE IF ReleaseTest(s) /\ ReleaseMatch(s) # NoMatch /\ Len(ReleaseMatch(s)) = 4
         THEN "release"
    ELSE IF StartsWith(s, <<"/", "raw", "/">>) /\ Len(RawParts(s)) >= 3 THEN "raw"
    ELSE IF DirectTest(s) THEN "direct"
    ELSE IF StartsWith(s, <<"/", "gh", "/">>)
         THEN IF Len(GhParts(s)) < 3 THEN "gh-invalid" ELSE "gh"
    ELSE "unmatched"

\* The address the branch fetches
onRequest_githubUrl(b, s) ==
    CASE b = "release" -> ReleaseUrl(s)
      [] b = "raw" -> RawUrl(s)
      [] b = "direct" -> DirectUrl(s)
      [] b = "gh" -> GhUrl(s)
      [] OTHER -> <<>>

\* The responses onRequest returns without fetching
onRequest_immediate(b, s) ==
    CASE b = "static" -> NextResponse
      [] b = "gh-invalid" ->
            TextResponse(<<"Invalid path format. Use /gh/username/repo/branch/file_path">>, 400)
      [] OTHER ->
            TextResponse(<<"Invalid path. Use one of the following formats:",
                           "1. /gh/username/repo/branch/file_path",
                           "2. /raw/username/repo/branch/file_path",
                           "3. /releases/username/repo/download/tag/filename",
                           "4. /https://raw.githubusercontent.com/username/repo/branch/file_path">>,
                         400)

\* Mutant: the release branch copies the file branches' defaults
onRequest_settle_FileDefaults(b, up) == Settle(up, "text/plain", "public, max-age=1800")

\* The branch's code after its fetch resolved
onRequest_settle(b, up) ==
    IF b = "release"
    THEN Settle(up, "application/octet-stream", "public, max-age=86400")
    ELSE Settle(up, "text/plain", "public, max-age=1800")

\* The branch's catch block
onRequest_catch(b, message) ==
    CASE b = "release" -> TextResponse(<<"Error fetching release content: ", message>>, 500)
      [] b = "raw" -> TextResponse(<<"Error fetching raw content: ", message>>, 500)
      [] OTHER -> TextResponse(<<"Error fetching content: ", message>>, 500)

-----------------------------------------------------------------------------
(* src/index.js: fetch *)

\* The branch fetch takes for a pathname, in the order of its if statements
fetch_branch(s) ==
    IF EmbeddedTest(s) THEN "embedded"
    ELSE IF ReleaseTest(s) /\ ReleaseMatch(s) # NoMatch /\ Len(ReleaseMatch(s)) = 4
         THEN "release"
    ELSE IF StartsWith(s, <<"/", "raw", "/">>) /\ Len(RawParts(s)) >= 3 THEN "raw"
    ELSE IF StartsWith(s, <<"/", "gh", "/">>)
         THEN IF Len(GhParts(s)) < 3 THEN "gh-invalid" ELSE "gh"
    ELSE IF s = <<"/">> \/ s = <<>> THEN "static"
    ELSE "unmatched"

\* The address the branch fetches
fetch_githubUrl(b, s) ==
    CASE b = "embedded" -> EmbeddedUrl(s)
      [] b = "release" -> ReleaseUrl(s)
      [] b = "raw" -> RawUrl(s)
      [] b = "gh" -> GhUrl(s)
      [] OTHER -> <<>>

\* The usage page served at the root
UsagePage ==
    [status |-> 200, body |-> <<"<html>GitHub CDN Worker: supported URL formats</html>">>,
     headers |-> ("Content-Type" :> "text/html") @@
                 ("Cache-Control" :> "public, max-age=86400")]

\* Mutant: a short /gh/ path is answered 404 Not Found
fetch_immediate_NotFound(b, s) ==
    IF b = "static" THEN UsagePage
    ELSE TextResponse(<<"Invalid path format. Use /gh/username/repo/branch/file_path">>, 404)

\* The responses fetch returns without fetching
fetch_immediate(b, s) ==
    CASE b = "static" -> UsagePage
      [] b = "gh-invalid" ->
            TextResponse(<<"Invalid path format. Use /gh/username/repo/branch/file_path">>, 400)
      [] OTHER ->
            TextResponse(<<"Invalid path: ">> \o s \o
                         <<"Use one of the following formats:",
                           "1. /gh/username/repo/branch/file_path",
                           "2. /raw/username/repo/branch/file_path",
                           "3. /releases/username/repo/download/tag/filename",
                           "4. /https://raw.githubusercontent.com/username/repo/branch/file_path">>,
                         400)

\* The branch's code after its fetch resolved
fetch_settle(b, up) ==
    IF b = "release"
    THEN Settle(up, "application/octet-stream", "public, max-age=86400")
    ELSE Settle(up, "text/plain", "public, max-age=1800")

\* The branch's catch block
fetch_catch(b, message, s, url) ==
    CASE b = "embedded" ->
            TextResponse(<<"Error fetching content: ", message, "Path: ">> \o s
                         \o <<"Extracted URL: ">> \o url, 500)
      [] b = "release" -> TextResponse(<<"Error fetching release content: ", message>>, 500)
      [] b = "raw" -> TextResponse(<<"Error fetching raw content: ", message>>, 500)
      [] OTHER -> TextResponse(<<"Error fetching content: ", message>>, 500)

-----------------------------------------------------------------------------
(* The state machine: one inbound request at a time, from its arrival to   *)
(* its response; nothing is kept from one request to the next.             *)

Init ==
    /\ entry = "none"
    /\ segs = <<>>
    /\ path = <<>>
    /\ pc = "idle"
    /\ variant = "none"
    /\ githubUrl = <<>>
    /\ outbound = <<>>
    /\ upstream = NoUpstream
    /\ response = NoResponse

\* A handler runs from the request's arrival to its first await or its return.
Handle(e, sg, b, url, immediate) ==
    /\ pc = "idle"
    /\ entry' = e
    /\ segs' = sg
    /\ path' = Render(sg)
    /\ variant' = b
    /\ upstream' = NoUpstream
    /\ IF b \in FetchVariants
       THEN /\ githubUrl' = url
            /\ outbound' = <<Request(url)>>
            /\ response' = NoResponse
            /\ pc' = "awaiting"
       ELSE /\ githubUrl' = <<>>
            /\ outbound' = <<>>
            /\ response' = immediate
            /\ pc' = "done"

\* Pages: onRequest(context) up to its await
OnRequest(sg) ==
    LET s == Render(sg)
        b == onRequest_branch(s)
    IN  Handle("pages", sg, b, onRequest_githubUrl(b, s), onRequest_immediate(b, s))

\* Worker: fetch(request, env) up to its await
Fetch(sg) ==
    LET s == Render(sg)
        b == fetch_branch(s)
    IN  Handle("worker", sg, b, fetch_githubUrl(b, s), fetch_immediate(b, s))

\* The awaited fetch resolves with an upstream response
FetchResolves(up) ==
    /\ pc = "awaiting"
    /\ upstream' = up
    /\ response' = IF entry = "pages" THEN onRequest_settle(variant, up)
                   ELSE fetch_settle(variant, up)
    /\ pc' = "done"
    /\ UNCHANGED <<entry, segs, path, variant, githubUrl, outbound>>

\* Mutant: the catch block fetches the address once more
FetchRejects_Retries(message) ==
    /\ pc = "awaiting"
    /\ Len(outbound) < 2
    /\ outbound' = Append(outbound, Request(githubUrl))
    /\ UNCHANGED <<entry, segs, path, pc, variant, githubUrl, upstream, response>>

\* The awaited fetch rejects: the branch's catch block runs
FetchRejects(message) ==
    /\ pc = "awaiting"
    /\ upstream' = NoUpstream
    /\ response' = IF entry = "pages" THEN onRequest_catch(variant, message)
                   ELSE fetch_catch(variant, message, path, githubUrl)
    /\ pc' = "done"
    /\ UNCHANGED <<entry, segs, path, variant, githubUrl, outbound>>

\* The response is sent; the handler's locals are gone
Respond ==
    /\ pc = "done"
    /\ entry' = "none"
    /\ segs' = <<>>
    /\ path' = <<>>
    /\ pc' = "idle"
    /\ variant' = "none"
    /\ githubUrl' = <<>>
    /\ outbound' = <<>>
    /\ upstream' = NoUpstream
    /\ response' = NoResponse

\* A request arrives at the Pages project
PagesRequest == pc = "idle" /\ \E sg \in SegLists : OnRequest(sg)

\* A request arrives at the Worker
WorkerRequest == pc = "idle" /\ \E sg \in SegLists : Fetch(sg)

Next ==
    \/ PagesRequest
    \/ WorkerRequest
    \/ \E up \in UpstreamResponses : FetchResolves(up)
    \/ \E m \in ErrorMessages : FetchRejects(m)
    \/ Respond

Spec == Init /\ [][Next]_vars

-----------------------------------------------------------------------------
(* Vocabulary of the properties: the shape of the inbound path is read off  *)
(* its segments, the handler's doing off the outbound request and response. *)

\* The upstream address of the request's outbound fetch, <<>> if none yet
FetchedUrl == IF outbound = <<>> THEN <<>> ELSE outbound[1].url

RawBase == <<"https:", "/", "/", RawHost>>

\* Segment positions where the path reads "/https://" and then more
SchemeStarts(sg) ==
    { i \in 1..Len(sg) : i + 2 <= Len(sg) /\ sg[i] = "https:" /\ sg[i + 1] = "" }

\* Segment positions where the path reads "/https://raw.githubusercontent.com/"
RawStarts(sg) == { i \in SchemeStarts(sg) : i + 3 <= Len(sg) /\ sg[i + 2] = RawHost }

\* The path from segment i onward, without its leading slash
UrlFrom(sg, i) == Tail(Render(SubSeq(sg, i, Len(sg))))

\* Whether an entry point fetches for a path, and the address it derives
Fetches(e, sg) ==
    IF e = "pages" THEN onRequest_branch(Render(sg)) \in FetchVariants
    ELSE fetch_branch(Render(sg)) \in FetchVariants

DerivedUrl(e, sg) ==
    IF e = "pages" THEN onRequest_githubUrl(onRequest_branch(Render(sg)), Render(sg))
    ELSE fetch_githubUrl(fetch_branch(Render(sg)), Render(sg))

\* sg with its i-th segment removed
Without(sg, i) == SubSeq(sg, 1, i - 1) \o SubSeq(sg, i + 1, Len(sg))

-----------------------------------------------------------------------------
(* C1 *)

\* C1: whenever the inbound path holds an embedded
\* /https://raw.githubusercontent.com/... URL, either entry point fetches
\* exactly the path from an embedded "https://" onward, whatever segments
\* precede it (the embedded-URL rule comes before the release, /raw/ and /gh/
\* rules).  Stated for the one host both entry points accept; the Pages
\* middleware violates it.
C1_EmbeddedUrlWins ==
    (pc # "idle" /\ RawStarts(segs) # {}) =>
        /\ Len(outbound) = 1
        /\ \E i \in SchemeStarts(segs) : FetchedUrl = UrlFrom(segs, i)

-----------------------------------------------------------------------------
(* C2 *)

\* /gh/{a}/{r}/{ref}/{p...}: a, r and ref are names (non-empty), ref is not
\* "blob", p has at least one segment
GhPlainShape(sg) ==
    /\ Len(sg) >= 5
    /\ sg[1] = "gh" /\ sg[2] # "" /\ sg[3] # "" /\ sg[4] \notin {"", "blob"}

\* C2 as stated: every /gh/{a}/{r}/{ref}/{p...} path with ref # "blob" is
\* fetched from https://raw.githubusercontent.com/{a}/{r}/{ref}/{p...}.
C2_GhAddress_Original ==
    (pc # "idle" /\ GhPlainShape(segs)) =>
        /\ Len(outbound) = 1
        /\ FetchedUrl = RawBase \o Render(Tail(segs))

\* C2 amended: the same, except in the Worker for a path that holds
\* /https://raw.githubusercontent.com/, which the Worker routes by its
\* embedded-URL rule.
C2_GhAddress ==
    (pc # "idle" /\ GhPlainShape(segs) /\ ~(entry = "worker" /\ RawStarts(segs) # {})) =>
        /\ Len(outbound) = 1
        /\ FetchedUrl = RawBase \o Render(Tail(segs))

\* A /gh/ request with a two-segment file path, fetched from the raw host
C2_Witness ==
    /\ pc = "awaiting"
    /\ entry = "worker"
    /\ segs = <<"gh", "a", "download", "https:", "a", "f">>
    /\ FetchedUrl = <<"https:", "/", "/", RawHost, "/", "a", "/", "download", "/", "https:",
                      "/", "a", "/", "f">>

-----------------------------------------------------------------------------
(* C3 *)

\* /gh/{a}/{r}/blob/{ref}/{p...}: a, r and ref are names (non-empty)
GhBlobShape(sg) ==
    /\ Len(sg) >= 5
    /\ sg[1] = "gh" /\ sg[2] # "" /\ sg[3] # "" /\ sg[4] = "blob" /\ sg[5] # ""

\* The request's address is the one its entry point derives for the same
\* path without the blob segment
SameAsWithoutBlob ==
    /\ Len(outbound) = 1
    /\ Fetches(entry, Without(segs, 4))
    /\ FetchedUrl = DerivedUrl(entry, Without(segs, 4))

\* C3 as stated: /gh/{a}/{r}/blob/{ref}/{p...} derives the address of
\* /gh/{a}/{r}/{ref}/{p...}.
C3_BlobDiscarded_Original == (pc # "idle" /\ GhBlobShape(segs)) => SameAsWithoutBlob

\* C3 amended: the same when ref is not itself "blob".
C3_BlobDiscarded ==
    (pc # "idle" /\ GhBlobShape(segs) /\ segs[5] # "blob") => SameAsWithoutBlob

\* A blob-form request whose address holds no blob
C3_Witness ==
    /\ pc = "awaiting"
    /\ segs = <<"gh", "a", "download", "blob", "a", "f">>
    /\ FetchedUrl = <<"https:", "/", "/", RawHost, "/", "a", "/", "download", "/", "a", "/", "f">>

-----------------------------------------------------------------------------
(* C4 *)

\* /raw/{a}/{r}/{ref}/{p...} or /gh/{a}/{r}/{ref}/{p...}
RawOrGhShape(sg) == Len(sg) >= 4 /\ sg[1] \in {"raw", "gh"}

\* The same coordinates under the other of the two prefixes
OtherPrefix(sg) == <<IF sg[1] = "raw" THEN "gh" ELSE "raw">> \o Tail(sg)

SameAsOtherPrefix ==
    /\ Len(outbound) = 1
    /\ Fetches(entry, OtherPrefix(segs))
    /\ FetchedUrl = DerivedUrl(entry, OtherPrefix(segs))

\* C4 as stated: /raw/{a}/{r}/{ref}/{p...} and /gh/{a}/{r}/{ref}/{p...} derive
\* the same address for every (a, r, ref, p...).
C4_RawEqualsGh_Original == (pc # "idle" /\ RawOrGhShape(segs)) => SameAsOtherPrefix

\* C4 amended: the same, except when ref is "blob" and a file path follows
\* (/gh/ then takes blob for the marker, /raw/ for the reference).
C4_RawEqualsGh ==
    (pc # "idle" /\ RawOrGhShape(segs) /\ ~(segs[4] = "blob" /\ Len(segs) >= 5)) =>
        SameAsOtherPrefix

\* A /raw/ request with a file path, fetched from the raw host
C4_Witness ==
    /\ pc = "awaiting"
    /\ segs = <<"raw", "a", "download", "a", "blob", "f">>
    /\ FetchedUrl = <<"https:", "/", "/", RawHost, "/", "a", "/", "download", "/", "a", "/",
                      "blob", "/", "f">>

-----------------------------------------------------------------------------
(* C5 *)

\* /releases/{a}/{r}/download/{rest}: a and r non-empty, rest non-empty
ReleaseShape(sg) ==
    /\ Len(sg) >= 5
    /\ sg[1] = "releases" /\ sg[2] # "" /\ sg[3] # "" /\ sg[4] = "download"
    /\ Tail(Render(SubSeq(sg, 5, Len(sg)))) # <<>>

ReleaseAddress(sg) ==
    <<"https:", "/", "/", "github.com", "/", sg[2], "/", sg[3], "/", "releases", "/",
      "download">> \o Render(SubSeq(sg, 5, Len(sg)))

\* C5 as stated: every release path is fetched from
\* https://github.com/{a}/{r}/releases/download/{rest}, rest verbatim, never
\* from the raw-content host.
C5_ReleaseAddress_Original ==
    (pc # "idle" /\ ReleaseShape(segs)) =>
        /\ Len(outbound) = 1
        /\ FetchedUrl = ReleaseAddress(segs)
        /\ FetchedUrl[4] # RawHost

\* C5 amended: the same, except in the Worker for a path that holds
\* /https://raw.githubusercontent.com/, which the Worker routes by its
\* embedded-URL rule.
C5_ReleaseAddress ==
    (pc # "idle" /\ ReleaseShape(segs) /\ ~(entry = "worker" /\ RawStarts(segs) # {})) =>
        /\ Len(outbound) = 1
        /\ FetchedUrl = ReleaseAddress(segs)
        /\ FetchedUrl[4] # RawHost

\* A release request whose rest holds a slash, fetched from github.com
C5_Witness ==
    /\ pc = "awaiting"
    /\ segs = <<"releases", "a", "blob", "download", "a", "f">>
    /\ FetchedUrl = <<"https:", "/", "/", "github.com", "/", "a", "/", "blob", "/", "releases",
                      "/", "download", "/", "a", "/", "f">>

-----------------------------------------------------------------------------
(* C6 *)

\* /gh/ or /raw/ followed by fewer than three segments (pieces between
\* slashes, as split('/') counts them)
ShortShape(sg) == Len(sg) >= 2 /\ Len(sg) <= 3 /\ sg[1] \in {"gh", "raw"}

\* The path shapes of the interface: /gh/ and /raw/ with three segments or
\* more, a release download, an embedded https://raw.githubusercontent.com/ URL
DocumentedShape(sg) ==
    \/ Len(sg) >= 4 /\ sg[1] \in {"gh", "raw"}
    \/ ReleaseShape(sg)
    \/ RawStarts(sg) # {}

\* The root path "/" and the empty path
RootPath(sg) == sg = <<"">> \/ sg = <<>>

\* The Pages form /http://raw.githubusercontent.com/...
HttpDirectShape(sg) ==
    Len(sg) >= 4 /\ sg[1] = "http:" /\ sg[2] = "" /\ sg[3] = RawHost

Rejected400 == pc = "done" /\ response.status = 400 /\ outbound = <<>>

-----------------------------------------------------------------------------
(* C7 *)

\* C7 as stated: every inbound request (the root path aside, which is served
\* a page) results in exactly one outbound call.
C7_OneFetch_Original == (pc = "done" /\ ~RootPath(segs)) => Len(outbound) = 1

\* C7 amended: every inbound request results in at most one outbound call:
\* exactly one when the path matched a variant, none when the request is
\* answered without a fetch (400, the root path); the call is never repeated,
\* also not after an upstream rejection or a transport failure.
C7_OneFetch ==
    /\ Len(outbound) <= 1
    /\ pc = "awaiting" => Len(outbound) = 1
    /\ pc = "done" => (Len(outbound) = 1 <=> variant \in FetchVariants)

\* A request whose one fetch failed at transport level and was answered 500
C7_Witness ==
    /\ pc = "done"
    /\ variant \in FetchVariants
    /\ upstream = NoUpstream
    /\ response.status = 500
    /\ Len(outbound) = 1

-----------------------------------------------------------------------------
(* C8 *)

\* The upstream answered with a status outside 200-299
UpstreamRejected == pc = "done" /\ upstream # NoUpstream /\ ~Ok(upstream)

\* C8: when the upstream answers outside 200-299, the response has the
\* upstream's status code, its body names that code and the reason phrase and
\* is not the upstream body, and the fetch was issued once.
C8_UpstreamError ==
    UpstreamRejected =>
        /\ response.status = upstream.status
        /\ Includes(response.body, <<ToString(upstream.status)>>)
        /\ Includes(response.body, <<upstream.statusText>>)
        /\ upstream.body # <<>> => ~Includes(response.body, upstream.body)
        /\ response.body # upstream.body
        /\ Len(outbound) = 1

\* A release download the upstream answered 404
C8_Witness ==
    /\ UpstreamRejected
    /\ variant = "release"
    /\ upstream.status = 404
    /\ response.status = 404
    /\ response.body = <<"GitHub API error: ", "404", " ", "Not Found">>

-----------------------------------------------------------------------------
(* C9 *)

\* The outbound fetch failed at transport level
TransportFailed == pc = "done" /\ variant \in FetchVariants /\ upstream = NoUpstream

\* C9: when the outbound fetch throws, the response has status 500 and a body
\* holding the failure reason and the original inbound path.  Every branch
\* but the Worker's embedded-URL branch leaves the path out.
C9_TransportFailure ==
    TransportFailed =>
        /\ response.status = 500
        /\ \E m \in ErrorMessages : Includes(response.body, <<m>>)
        /\ Includes(response.body, path)

-----------------------------------------------------------------------------
(* C10 *)

\* The upstream answered with a status in 200-299
UpstreamSucceeded == pc = "done" /\ upstream # NoUpstream /\ Ok(upstream)

\* The upstream declares a content type: the header is there and not empty
DeclaresContentType(up) ==
    "content-type" \in DOMAIN up.headers /\ up.headers["content-type"] # ""

\* C10: on a successful upstream response the Content-Type is the upstream's
\* declared one, else application/octet-stream for a release download and
\* text/plain for the other variants; Cache-Control is public, max-age=86400
\* for a release download and public, max-age=1800 otherwise;
\* Access-Control-Allow-Origin is *; the body is the upstream body.
C10_SuccessRelay ==
    UpstreamSucceeded =>
        /\ DOMAIN response.headers =
               {"Content-Type", "Cache-Control", "Access-Control-Allow-Origin"}
        /\ response.headers["Content-Type"] =
               IF DeclaresContentType(upstream) THEN upstream.headers["content-type"]
               ELSE IF variant = "release" THEN "application/octet-stream"
               ELSE "text/plain"
        /\ response.headers["Cache-Control"] =
               IF variant = "release" THEN "public, max-age=86400"
               ELSE "public, max-age=1800"
        /\ response.headers["Access-Control-Allow-Origin"] = "*"
        /\ response.body = upstream.body

\* A release download relayed with the default type and the day-long cache
C10_Witness ==
    /\ UpstreamSucceeded
    /\ variant = "release"
    /\ ~DeclaresContentType(upstream)
    /\ response.headers["Content-Type"] = "application/octet-stream"
    /\ response.headers["Cache-Control"] = "public, max-age=86400"
    /\ response.body = <<"<upstream bytes>">>

-----------------------------------------------------------------------------
(* C11 *)

\* The response carries Content-Type, Cache-Control and
\* Access-Control-Allow-Origin: *
HasStandardHeaders(r) ==
    /\ {"Content-Type", "Cache-Control", "Access-Control-Allow-Origin"} \subseteq DOMAIN r.headers
    /\ r.headers["Access-Control-Allow-Origin"] = "*"

\* The handler answered with an error response of its own: an upstream
\* rejection, a 400 routing error or a 500 transport failure
ErrorOutcome ==
    \/ UpstreamRejected
    \/ TransportFailed
    \/ pc = "done" /\ variant \in {"gh-invalid", "unmatched"}

\* C11 as stated: every response the handler itself produces, on a success
\* relay, an upstream rejection, a 400 routing error and a 500 transport
\* failure, includes Content-Type, Cache-Control and
\* Access-Control-Allow-Origin: *.
C11_HeadersAlways_Original ==
    (UpstreamSucceeded \/ ErrorOutcome) => HasStandardHeaders(response)

\* C11 amended: every success relay includes the three headers; the error
\* responses (upstream rejection, 400, 500) are built from a text and a status
\* alone and carry neither Cache-Control nor Access-Control-Allow-Origin.
C11_HeadersAlways ==
    /\ UpstreamSucceeded => HasStandardHeaders(response)
    /\ ErrorOutcome =>
           /\ "Cache-Control" \notin DOMAIN response.headers
           /\ "Access-Control-Allow-Origin" \notin DOMAIN response.headers

\* A /gh/ file relayed by the Worker with the three headers
C11_Witness ==
    /\ UpstreamSucceeded
    /\ entry = "worker"
    /\ variant = "gh"
    /\ DOMAIN response.headers =
           {"Content-Type", "Cache-Control", "Access-Control-Allow-Origin"}
    /\ response.headers["Access-Control-Allow-Origin"] = "*"

-----------------------------------------------------------------------------
(* C12 *)

\* The host of an absolute http(s) URL: what stands between "//" and the
\* next slash
UrlHost(u) ==
    IF Len(u) >= 4 /\ u[1] \in {"https:", "http:"} /\ u[2] = "/" /\ u[3] = "/" /\ u[4] # "/"
    THEN u[4]
    ELSE ""

\* C12: every outbound fetch that carries the Authorization header is
\* addressed to raw.githubusercontent.com or github.com.  The Worker's
\* embedded-URL branch cuts the address at the first "/https://" of the path
\* and sends the credential to whatever host stands there.
C12_CredentialHosts ==
    \A i \in 1..Len(outbound) :
        "Authorization" \in DOMAIN outbound[i].headers =>
            UrlHost(outbound[i].url) \in {RawHost, MainHost}

=============================================================================
